---- MODULE Spec2Model ----
(***************************************************************************)
(* Terminal typewriter of src/app.js (lines 438-574): the typing loop      *)
(* typeTerminal, the forced completion finishTerminalInstant, the          *)
(* scroll-past observer and hard cap timer of terminalSkipOnScrollPast,    *)
(* and the copy button's click handler.                                    *)
(*                                                                         *)
(* Texts are sequences of one-character strings.  Every step of the model  *)
(* is one run of the browser's event loop: the script at load, one timer   *)
(* callback, one observer callback, one click, one promise continuation.   *)
(* Delays are not measured: any pending callback may be the next to run.   *)
(***************************************************************************)
EXTENDS Integers, Sequences, FiniteSets, TLC

\* ---------------------------------------------------------------- bounds
MaxLines == 2
MaxLineLen == 2
MaxBatch == 2
MaxCopies == 2
MaxReveal == 4

Alphabet == {"a", " "}
NL == "\n"
Whitespace == {" ", NL}

Strings == UNION {[1..n -> Alphabet] : n \in 0..MaxLineLen}
RECURSIVE total(_)
total(ls) == IF Len(ls) = 0 THEN 0 ELSE Len(ls[1]) + total(Tail(ls))
\* the line sequences tried: at most MaxLines lines of at most MaxLineLen
\* characters, and at most MaxLineLen characters in all
LineSeqs ==
    {ls \in UNION {[1..n -> Strings] : n \in 0..MaxLines} :
        total(ls) <= MaxLineLen}
\* what the page holds in #terminalText before the script runs
InitialTexts == {<<>>, <<"a">>}
\* what the page may hold as #terminalLines: no such element, or an element
\* whose text is empty, is not JSON, is JSON for a value that is no array
\* (items is then that value's content), or is JSON for an array of strings
NonArrayKinds == {"object", "string"}
Docs ==
    {[present |-> FALSE, kind |-> "empty", items |-> <<>>]}
    \cup {[present |-> TRUE, kind |-> k, items |-> <<>>] :
              k \in {"empty", "invalid"}}
    \cup {[present |-> TRUE, kind |-> k, items |-> <<<<"a">>>>] :
              k \in NonArrayKinds}
    \cup {[present |-> TRUE, kind |-> "array", items |-> ls] : ls \in LineSeqs}
Batches == UNION {[1..n -> BOOLEAN] : n \in 1..MaxBatch}

VARIABLES
    terminalTextEl,   \* TRUE iff #terminalText exists
    terminalCopyBtn,  \* TRUE iff #terminalCopy exists
    terminalWrap,     \* TRUE iff .terminal exists
    hasIO,            \* TRUE iff "IntersectionObserver" in window
    hasClipboard,     \* TRUE iff navigator.clipboard.writeText returns a promise
    terminalLinesEl,  \* the element #terminalLines and its text
    textContent,      \* terminalTextEl.textContent
    fullText,
    typingAborted,
    typingFinished,
    pc,               \* where typeTerminal stands: init, char_sleep, line_pause, done
    i,                \* typeTerminal's line index (0-based)
    c,                \* typeTerminal's character index (0-based)
    sleepTimers,      \* timers of sleep() that have not fired yet
    seen,             \* terminalSkipOnScrollPast's flag
    io,               \* the observer: none, observing, disconnected
    lastEntry,        \* the latest entry the observer handed over: none, enter, exit
    deadline,         \* the 2200 ms timer: unarmed, armed, fired
    writes,           \* texts handed to the clipboard whose write is pending
    clipboard,        \* what the clipboard holds (<<>> before any copy)
    label,            \* terminalCopyBtn.textContent
    revertTimers,     \* pending 1100 ms timers that set the label back
    revealEls,        \* the elements of class "reveal"
    reduce,           \* TRUE iff (prefers-reduced-motion: reduce) matches
    revealReady,      \* TRUE once setupReveal has run
    isVisible,        \* the reveal elements of class "is-visible"
    observed          \* the reveal elements setupReveal's observer observes

vars == <<terminalTextEl, terminalCopyBtn, terminalWrap, hasIO, hasClipboard,
          terminalLinesEl,
          textContent, fullText, typingAborted, typingFinished, pc, i, c,
          sleepTimers, seen, io, lastEntry, deadline, writes, clipboard,
          label, revertTimers, revealEls, reduce, revealReady,
          isVisible, observed>>

env == <<terminalTextEl, terminalCopyBtn, terminalWrap, hasIO, hasClipboard,
         terminalLinesEl>>
typer == <<textContent, fullText, typingAborted, typingFinished, pc, i, c>>
copier == <<writes, clipboard, label, revertTimers>>
watcher == <<seen, io, lastEntry>>
reveal == <<revealEls, reduce, revealReady, isVisible, observed>>

\* ------------------------------------------------------ readTerminalLines
\* JSON.parse of the element's text, "[]" standing in for an empty text:
\* ok is FALSE when it throws
JSONparse(el) ==
    IF el.kind = "empty" THEN [ok |-> TRUE, isArray |-> TRUE, value |-> <<>>]
    ELSE [ok |-> el.kind # "invalid",
          isArray |-> el.kind = "array",
          value |-> el.items]

\* variant: whatever was parsed is taken for the lines
readTerminalLines_noArrayCheck(el) ==
    IF ~el.present THEN <<>>
    ELSE LET parsed == JSONparse(el) IN
         IF ~parsed.ok THEN <<>> ELSE parsed.value

readTerminalLines(el) ==
    IF ~el.present THEN <<>>
    ELSE LET parsed == JSONparse(el) IN
         IF ~parsed.ok THEN <<>>
         ELSE IF parsed.isArray THEN parsed.value ELSE <<>>

\* const lines = readTerminalLines(), read once
lines == readTerminalLines(terminalLinesEl)

\* ------------------------------------------------------------ pure helpers
RECURSIVE join(_, _)
\* ls.join(sep)
join(ls, sep) ==
    IF Len(ls) = 0 THEN <<>>
    ELSE IF Len(ls) = 1 THEN ls[1]
    ELSE ls[1] \o <<sep>> \o join(Tail(ls), sep)

RECURSIVE trimStart(_)
trimStart(s) ==
    IF Len(s) > 0 /\ s[1] \in Whitespace THEN trimStart(Tail(s)) ELSE s

RECURSIVE trimEnd(_)
trimEnd(s) ==
    IF Len(s) > 0 /\ s[Len(s)] \in Whitespace
    THEN trimEnd(SubSeq(s, 1, Len(s) - 1)) ELSE s

\* String.prototype.trim
trim(s) == trimEnd(trimStart(s))

IsPrefix(p, s) == Len(p) <= Len(s) /\ p = SubSeq(s, 1, Len(p))

\* the animator's mutable state as one record
Cur == [textContent |-> textContent, fullText |-> fullText,
        typingAborted |-> typingAborted, typingFinished |-> typingFinished,
        pc |-> pc, i |-> i, c |-> c]

Set(r) ==
    /\ textContent' = r.textContent
    /\ fullText' = r.fullText
    /\ typingAborted' = r.typingAborted
    /\ typingFinished' = r.typingFinished
    /\ pc' = r.pc
    /\ i' = r.i
    /\ c' = r.c

\* -------------------------------------------------- finishTerminalInstant
\* variant: appends the join to what is shown and never records completion
finishTerminalInstant_append(s) ==
    IF ~terminalTextEl THEN s
    ELSE LET done == join(lines, NL) IN
         [s EXCEPT !.typingAborted = TRUE,
                   !.textContent = @ \o done,
                   !.fullText = @ \o done]

\* variant: the surface is not tested, so line 468 runs before line 471 fails
finishTerminalInstant_noElGuard(s) ==
    IF s.typingFinished THEN s
    ELSE IF ~terminalTextEl THEN [s EXCEPT !.typingAborted = TRUE]
    ELSE LET done == join(lines, NL) IN
         [s EXCEPT !.typingAborted = TRUE,
                   !.textContent = done,
                   !.fullText = done,
                   !.typingFinished = TRUE]

\* variant: the text is completed but typingFinished is left alone
finishTerminalInstant_noFinished(s) ==
    IF ~terminalTextEl \/ s.typingFinished THEN s
    ELSE LET done == join(lines, NL) IN
         [s EXCEPT !.typingAborted = TRUE,
                   !.textContent = done,
                   !.fullText = done]

finishTerminalInstant(s) ==
    IF ~terminalTextEl \/ s.typingFinished THEN s
    ELSE LET done == join(lines, NL) IN
         [s EXCEPT !.typingAborted = TRUE,
                   !.textContent = done,
                   !.fullText = done,
                   !.typingFinished = TRUE]

\* ------------------------------------------------------------ typeTerminal
\* variant: the loop ends without recording the completion
LoopExit_noFlag(s) == [s EXCEPT !.pc = "done"]

\* the for loop over i has ended: line 504
LoopExit(s) == [s EXCEPT !.typingFinished = TRUE, !.pc = "done"]

\* variant: the separator follows the last line too
AfterLine_alwaysNL(s, k) ==
    [s EXCEPT !.textContent = @ \o <<NL>>,
              !.fullText = @ \o <<NL>>,
              !.pc = "line_pause", !.i = k]

\* what follows a line whose characters are all typed (lines 497-501), and
\* the test of the outer loop that ends it after the last line
AfterLine(s, k) ==
    IF k # Len(lines) - 1
    THEN [s EXCEPT !.textContent = @ \o <<NL>>,
                   !.fullText = @ \o <<NL>>,
                   !.pc = "line_pause", !.i = k]
    ELSE LoopExit([s EXCEPT !.i = k + 1])

\* variant: types the line's first character at every position
InnerLoop_repeat(s, k, d) ==
    IF d < Len(lines[k + 1])
    THEN IF s.typingAborted
         THEN [s EXCEPT !.pc = "done", !.i = k, !.c = d]
         ELSE [s EXCEPT !.textContent = @ \o <<lines[k + 1][1]>>,
                        !.fullText = @ \o <<lines[k + 1][1]>>,
                        !.pc = "char_sleep", !.i = k, !.c = d]
    ELSE AfterLine(s, k)

\* the test of the inner loop with indices k, d (lines 488-495)
InnerLoop(s, k, d) ==
    IF d < Len(lines[k + 1])
    THEN IF s.typingAborted
         THEN [s EXCEPT !.pc = "done", !.i = k, !.c = d]
         ELSE [s EXCEPT !.textContent = @ \o <<lines[k + 1][d + 1]>>,
                        !.fullText = @ \o <<lines[k + 1][d + 1]>>,
                        !.pc = "char_sleep", !.i = k, !.c = d]
    ELSE AfterLine(s, k)

\* the test of the outer loop with index k (lines 483-486)
OuterLoop(s, k) ==
    IF k < Len(lines)
    THEN IF s.typingAborted
         THEN [s EXCEPT !.pc = "done", !.i = k]
         ELSE InnerLoop(s, k, 0)
    ELSE LoopExit([s EXCEPT !.i = k])

\* variant: an empty line sequence is not turned away
typeTerminal_noEmptyCheck(s) ==
    IF ~terminalTextEl THEN [s EXCEPT !.pc = "done"]
    ELSE OuterLoop([s EXCEPT !.textContent = <<>>, !.fullText = <<>>], 0)

\* the call typeTerminal() up to its first await or its return
typeTerminal(s) ==
    IF ~terminalTextEl \/ Len(lines) = 0 THEN [s EXCEPT !.pc = "done"]
    ELSE OuterLoop([s EXCEPT !.textContent = <<>>, !.fullText = <<>>], 0)

\* sleep(ms), lines 461-463: the timers a run of typeTerminal that ended in
\* r has armed, one if it stands at an await
sleep(r) == IF r.pc \in {"char_sleep", "line_pause"} THEN 1 ELSE 0

\* ------------------------------------------------------------------- Init
Init ==
    /\ terminalTextEl \in BOOLEAN
    /\ terminalCopyBtn \in BOOLEAN
    /\ terminalWrap \in BOOLEAN
    /\ hasIO \in BOOLEAN
    /\ hasClipboard \in BOOLEAN
    /\ terminalLinesEl \in Docs
    /\ textContent \in (IF terminalTextEl THEN InitialTexts ELSE {<<>>})
    /\ fullText = <<>>
    /\ typingAborted = FALSE
    /\ typingFinished = FALSE
    /\ pc = "init"
    /\ i = 0
    /\ c = 0
    /\ sleepTimers = 0
    /\ seen = FALSE
    /\ io = "none"
    /\ lastEntry = "none"
    /\ deadline = "unarmed"
    /\ writes = <<>>
    /\ clipboard = <<>>
    /\ label = "Copy"
    /\ revertTimers = 0
    /\ revealEls = {}
    /\ reduce = FALSE
    /\ revealReady = FALSE
    /\ isVisible = {}
    /\ observed = {}

\* ---------------------------------------------------------------- actions
\* the script runs: typeTerminal() at line 507, then terminalSkipOnScrollPast
Load ==
    /\ pc = "init"
    /\ Set(typeTerminal(Cur))
    /\ sleepTimers' = sleepTimers + sleep(typeTerminal(Cur))
    /\ io' = IF terminalWrap /\ hasIO THEN "observing" ELSE "none"
    /\ deadline' = IF terminalWrap THEN "armed" ELSE "unarmed"
    /\ UNCHANGED <<env, reveal, seen, lastEntry, copier>>

\* variant: the timer that woke the loop stays armed
CharWake_keepTimer ==
    /\ pc = "char_sleep"
    /\ Set(InnerLoop(Cur, i, c + 1))
    /\ sleepTimers' = sleepTimers + sleep(InnerLoop(Cur, i, c + 1))
    /\ UNCHANGED <<env, reveal, watcher, deadline, copier>>

\* the sleep of line 494 is over
CharWake ==
    /\ pc = "char_sleep"
    /\ sleepTimers > 0
    /\ Set(InnerLoop(Cur, i, c + 1))
    /\ sleepTimers' = sleepTimers - 1 + sleep(InnerLoop(Cur, i, c + 1))
    /\ UNCHANGED <<env, reveal, watcher, deadline, copier>>

\* the sleep of line 500 is over
PauseWake ==
    /\ pc = "line_pause"
    /\ sleepTimers > 0
    /\ Set(OuterLoop(Cur, i + 1))
    /\ sleepTimers' = sleepTimers - 1 + sleep(OuterLoop(Cur, i + 1))
    /\ UNCHANGED <<env, reveal, watcher, deadline, copier>>

\* variant: only the first entry of a batch is looked at
observe_firstOnly(es, a) ==
    IF es[1] THEN [a EXCEPT !.seen = TRUE]
    ELSE IF a.seen /\ ~a.s.typingFinished
         THEN [a EXCEPT !.s = finishTerminalInstant(a.s),
                        !.io = "disconnected"]
         ELSE a

RECURSIVE observe_noSeen(_, _)
\* variant: an exit forces completion whether or not the region was seen
observe_noSeen(es, a) ==
    IF Len(es) = 0 THEN a
    ELSE observe_noSeen(Tail(es),
            IF es[1] THEN [a EXCEPT !.seen = TRUE]
            ELSE IF ~a.s.typingFinished
                 THEN [a EXCEPT !.s = finishTerminalInstant(a.s),
                                !.io = "disconnected"]
                 ELSE a)

RECURSIVE observe(_, _)
\* the observer's callback on the entries es (TRUE = isIntersecting),
\* from a: [s animator state, seen, io]
observe(es, a) ==
    IF Len(es) = 0 THEN a
    ELSE observe(Tail(es),
            IF es[1] THEN [a EXCEPT !.seen = TRUE]
            ELSE IF a.seen /\ ~a.s.typingFinished
                 THEN [a EXCEPT !.s = finishTerminalInstant(a.s),
                                !.io = "disconnected"]
                 ELSE a)

Observe(es) ==
    /\ io = "observing"
    /\ LET a == observe(es, [s |-> Cur, seen |-> seen, io |-> io]) IN
         /\ Set(a.s)
         /\ seen' = a.seen
         /\ io' = a.io
    /\ lastEntry' = IF es[Len(es)] THEN "enter" ELSE "exit"
    /\ UNCHANGED <<env, reveal, sleepTimers, deadline, copier>>

\* variant: the timer renders the full text without asking typingFinished
Deadline_unguarded ==
    /\ deadline = "armed"
    /\ deadline' = "fired"
    /\ Set(IF ~terminalTextEl THEN Cur
           ELSE [Cur EXCEPT !.typingAborted = TRUE,
                            !.textContent = join(lines, NL),
                            !.fullText = join(lines, NL),
                            !.typingFinished = TRUE])
    /\ io' = IF hasIO THEN "disconnected" ELSE io
    /\ UNCHANGED <<env, reveal, sleepTimers, seen, lastEntry, copier>>

\* the hard cap timer: lines 515-517 without the observer, 539-544 with it
Deadline ==
    /\ deadline = "armed"
    /\ deadline' = "fired"
    /\ IF ~typingFinished
       THEN /\ Set(finishTerminalInstant(Cur))
            /\ io' = IF hasIO THEN "disconnected" ELSE io
       ELSE UNCHANGED <<typer, io>>
    /\ UNCHANGED <<env, reveal, sleepTimers, seen, lastEntry, copier>>

\* the text the click handler hands over: lines 552-554
textToCopy(s) ==
    trim(IF Len(s.fullText) > 0 THEN s.fullText
         ELSE IF terminalTextEl THEN s.textContent ELSE <<>>)

\* the try branch up to its await, line 559: the write is pending
tryWrite(t) ==
    /\ writes' = Append(writes, t)
    /\ UNCHANGED <<clipboard, label, revertTimers>>

\* the catch branch, lines 562-572: the textarea copy, "Copied", the timer
catchFallback(t) ==
    /\ clipboard' = t
    /\ label' = "Copied"
    /\ revertTimers' = revertTimers + 1

\* variant: the click copies what is there without forcing completion
CopyClick_noFinish ==
    /\ pc # "init"
    /\ terminalCopyBtn
    /\ Len(writes) + revertTimers < MaxCopies
    /\ LET t == textToCopy(Cur) IN
         IF Len(t) = 0 THEN UNCHANGED copier
         ELSE IF hasClipboard THEN tryWrite(t)
         ELSE catchFallback(t) /\ UNCHANGED writes
    /\ UNCHANGED <<env, reveal, sleepTimers, typer, watcher, deadline>>

\* a click on the copy button, lines 549-573, as far as its task runs: up
\* to the await of line 559 when writeText returns a promise; through the
\* catch of lines 562-572 when navigator.clipboard is undefined or
\* writeText throws at the call. The handler takes a click at any time;
\* MaxCopies caps the copies whose write or revert timer is still pending,
\* and below the cap a click may come while earlier copies are pending.
CopyClick ==
    /\ pc # "init"
    /\ terminalCopyBtn
    /\ Len(writes) + revertTimers < MaxCopies
    /\ LET s == IF ~typingFinished THEN finishTerminalInstant(Cur) ELSE Cur
           t == textToCopy(s) IN
         /\ Set(s)
         /\ IF Len(t) = 0 THEN UNCHANGED copier
            ELSE IF hasClipboard THEN tryWrite(t)
            ELSE catchFallback(t) /\ UNCHANGED writes
    /\ UNCHANGED <<env, reveal, sleepTimers, watcher, deadline>>

\* navigator.clipboard.writeText resolved: lines 560-561
WriteResolved ==
    /\ Len(writes) > 0
    /\ clipboard' = Head(writes)
    /\ writes' = Tail(writes)
    /\ label' = "Copied"
    /\ revertTimers' = revertTimers + 1
    /\ UNCHANGED <<env, reveal, sleepTimers, typer, watcher, deadline>>

\* variant: the fallback copies but does not confirm
WriteRejected_noLabel ==
    /\ Len(writes) > 0
    /\ clipboard' = Head(writes)
    /\ writes' = Tail(writes)
    /\ UNCHANGED <<env, reveal, sleepTimers, typer, watcher, deadline, label, revertTimers>>

\* the promise of writeText rejected, the textarea fallback: lines 562-572
WriteRejected ==
    /\ Len(writes) > 0
    /\ catchFallback(Head(writes))
    /\ writes' = Tail(writes)
    /\ UNCHANGED <<env, reveal, sleepTimers, typer, watcher, deadline>>

\* one of the 1100 ms timers of lines 561 and 571
LabelRevert ==
    /\ revertTimers > 0
    /\ label' = "Copy"
    /\ revertTimers' = revertTimers - 1
    /\ UNCHANGED <<env, reveal, sleepTimers, typer, watcher, deadline, writes, clipboard>>

Next ==
    \/ Load
    \/ CharWake
    \/ PauseWake
    \/ \E es \in Batches : Observe(es)
    \/ Deadline
    \/ CopyClick
    \/ WriteResolved
    \/ WriteRejected
    \/ LabelRevert

Spec == Init /\ [][Next]_vars

TypeOK ==
    /\ pc \in {"init", "char_sleep", "line_pause", "done"}
    /\ io \in {"none", "observing", "disconnected"}
    /\ deadline \in {"unarmed", "armed", "fired"}
    /\ label \in {"Copy", "Copied"}
    /\ revertTimers \in 0..MaxCopies
    /\ sleepTimers \in 0..1
    /\ hasClipboard \in BOOLEAN
\* ------------------------------------------------------------ setupReveal
\* Reveal on scroll (lines 579-605) shares nothing with the typewriter but
\* the window; it is checked on its own, the typewriter standing still.
RevealEntries(obs) == [target : obs, isIntersecting : BOOLEAN]
RevealBatches(obs) == UNION {[1..n -> RevealEntries(obs)] : n \in 1..MaxBatch}

RECURSIVE revealCallback_noCheck(_, _)
\* variant: every entry marks its target, intersecting or not
revealCallback_noCheck(es, a) ==
    IF Len(es) = 0 THEN a
    ELSE revealCallback_noCheck(Tail(es),
            [a EXCEPT !.isVisible = @ \cup {es[1].target},
                      !.observed = @ \ {es[1].target}])

RECURSIVE revealCallback(_, _)
\* the observer's callback on the entries es, from a: [isVisible, observed]
revealCallback(es, a) ==
    IF Len(es) = 0 THEN a
    ELSE revealCallback(Tail(es),
            IF es[1].isIntersecting
            THEN [a EXCEPT !.isVisible = @ \cup {es[1].target},
                           !.observed = @ \ {es[1].target}]
            ELSE a)

RevealInit ==
    /\ terminalTextEl = FALSE
    /\ terminalCopyBtn = FALSE
    /\ terminalWrap = FALSE
    /\ hasIO \in BOOLEAN
    /\ hasClipboard = TRUE
    /\ terminalLinesEl = [present |-> FALSE, kind |-> "empty", items |-> <<>>]
    /\ textContent = <<>>
    /\ fullText = <<>>
    /\ typingAborted = FALSE
    /\ typingFinished = FALSE
    /\ pc = "init"
    /\ i = 0
    /\ c = 0
    /\ sleepTimers = 0
    /\ seen = FALSE
    /\ io = "none"
    /\ lastEntry = "none"
    /\ deadline = "unarmed"
    /\ writes = <<>>
    /\ clipboard = <<>>
    /\ label = "Copy"
    /\ revertTimers = 0
    /\ revealEls \in SUBSET (1..MaxReveal)
    /\ reduce \in BOOLEAN
    /\ revealReady = FALSE
    /\ isVisible = {}
    /\ observed = {}

\* setupReveal runs at load
SetupReveal ==
    /\ ~revealReady
    /\ revealReady' = TRUE
    /\ IF revealEls = {} THEN UNCHANGED <<isVisible, observed>>
       ELSE IF reduce \/ ~hasIO
            THEN isVisible' = isVisible \cup revealEls /\ UNCHANGED observed
            ELSE observed' = revealEls /\ UNCHANGED isVisible
    /\ UNCHANGED <<env, typer, sleepTimers, watcher, deadline, copier,
                   revealEls, reduce>>

\* the observer hands over entries of elements it observes
RevealObserve(es) ==
    /\ revealReady
    /\ LET a == revealCallback(es, [isVisible |-> isVisible,
                                    observed |-> observed]) IN
         /\ isVisible' = a.isVisible
         /\ observed' = a.observed
    /\ UNCHANGED <<env, typer, sleepTimers, watcher, deadline, copier,
                   revealEls, reduce, revealReady>>

RevealNext ==
    \/ SetupReveal
    \/ \E es \in RevealBatches(observed) : RevealObserve(es)

RevealSpec == RevealInit /\ [][RevealNext]_vars

\* timers and promise continuations the browser is bound to run
FairSpec ==
    /\ Spec
    /\ WF_vars(Load)
    /\ WF_vars(CharWake)
    /\ WF_vars(PauseWake)
    /\ WF_vars(Deadline)
    /\ WF_vars(WriteResolved \/ WriteRejected)
    /\ WF_vars(LabelRevert)

\* ------------------------------------------------------------- vocabulary
Done == join(lines, NL)

\* the animator is Typing: the loop sleeps and nothing has completed it
Typing == pc \in {"char_sleep", "line_pause"} /\ ~typingFinished

\* an external trigger: a visibility batch, the hard cap timer, a copy click
ExternalTrigger ==
    \/ \E es \in Batches : Observe(es)
    \/ Deadline
    \/ CopyClick

\* some exit entry of es is handed over when the region has been seen
ExitAfterSeen(es, sn) ==
    \E k \in 1..Len(es) : ~es[k] /\ (sn \/ \E j \in 1..(k - 1) : es[j])

\* the click's task hands t to the clipboard: as a write of the clipboard
\* API, or by the textarea copy where the API cannot be called
HandsOver(t) ==
    IF hasClipboard THEN writes' = Append(writes, t) /\ clipboard' = clipboard
    ELSE clipboard' = t /\ writes' = writes

HandsNothing == UNCHANGED <<writes, clipboard>>

\* ------------------------------------------------------------------ claims

\* C1: whenever the animator is Finished with its display surface present,
\* the displayed text and fullText are exactly the lines joined by "\n";
\* no callback that wakes up after completion appends anything.
C1_FinishedShowsJoin ==
    (terminalTextEl /\ typingFinished) =>
        (textContent = Done /\ fullText = Done)

\* C2: after a forced completion, once the typing loop has no callback
\* pending any more, the text shown is the text of natural completion.
C2_ForcedEqualsNatural ==
    (typingAborted /\ pc = "done") => textContent = Done

\* C3 as stated: with a display surface and a non-empty join, every copy
\* click leaves the animator Finished and hands exactly the join to the
\* clipboard.
C3_CopyHandsExactJoin ==
    [][(CopyClick /\ terminalTextEl /\ Len(Done) > 0) =>
          (typingFinished' /\ HandsOver(Done))]_vars

\* C3 amended: with a display surface, every copy click leaves the animator
\* Finished and hands to the clipboard the join with its leading and
\* trailing whitespace trimmed, or nothing when that trimmed text is empty;
\* never the partial text.
C3_CopyHandsTrimmedJoin ==
    [][(CopyClick /\ terminalTextEl) =>
          /\ typingFinished'
          /\ IF Len(trim(Done)) = 0 THEN HandsNothing
             ELSE HandsOver(trim(Done))]_vars

\* a click forced completion in mid-typing (no other trigger has acted) and
\* the text handed over is the trimmed join, which differs from the join
C3_Witness ==
    /\ pc = "char_sleep" /\ typingAborted
    /\ deadline # "fired" /\ io # "disconnected"
    /\ Len(writes) > 0 /\ writes[1] = trim(Done) /\ trim(Done) # Done

\* C4: Finished is terminal: typingFinished never goes back to false, and
\* an external trigger taken in a Finished state changes neither the flags
\* nor fullText nor the displayed text.
C4_FinishedTerminal ==
    [][typingFinished =>
          /\ typingFinished'
          /\ \/ UNCHANGED <<typingAborted, fullText, textContent>>
             \/ ~ExternalTrigger]_vars

\* the hard cap timer has fired on an animator that completed by itself
C4_Witness ==
    typingFinished /\ ~typingAborted /\ deadline = "fired" /\ Len(Done) > 1

\* C5: while Typing the displayed text is a prefix of the join, and a step
\* that stays in Typing appends exactly the next element of the join when
\* it is a wake-up of the typing loop and leaves the text alone otherwise.
C5_TypingPrefix ==
    /\ [](Typing => IsPrefix(textContent, Done))
    /\ [][(Typing /\ Typing') =>
             IF CharWake \/ PauseWake
             THEN Len(textContent') = Len(textContent) + 1
             ELSE textContent' = textContent]_vars

\* typing has gone past a line separator and is in the second line
C5_Witness ==
    Typing /\ i = 1 /\ pc = "char_sleep" /\ Len(textContent) >= 3

\* C6: a completion that was not forced leaves fullText and the displayed
\* text equal to the join, and with a display surface and a non-empty line
\* sequence the loop does reach Finished unless a completion is forced.
C6_NaturalCompletion ==
    /\ []((typingFinished /\ ~typingAborted) =>
             (pc = "done" /\ fullText = Done /\ textContent = Done))
    /\ ((terminalTextEl /\ Len(lines) > 0 /\ []~typingAborted) =>
             <>(typingFinished /\ textContent = Done))

\* the loop ended by itself after two non-empty lines
C6_Witness ==
    /\ typingFinished /\ ~typingAborted /\ Len(lines) = 2
    /\ Len(lines[1]) > 0 /\ Len(lines[2]) > 0 /\ textContent = Done

\* C7: with a display surface, in every state after the hard cap timer has
\* run the animator is Finished and shows the join.
C7_DeadlineShowsJoin ==
    (terminalTextEl /\ deadline = "fired") =>
        (typingFinished /\ textContent = Done)

\* C8: an observer callback forces completion exactly when the animator has
\* a display surface, is not Finished, and an exit entry comes after the
\* region was seen; every other callback, and so every exit that follows a
\* completion, changes neither the texts nor the flags.
C8_ExitAfterSeenForcesOnce ==
    [][\A es \in Batches :
          IF terminalTextEl /\ ~typingFinished /\ ExitAfterSeen(es, seen)
          THEN \/ /\ typingFinished' /\ typingAborted'
                  /\ textContent' = Done /\ fullText' = Done
                  /\ io' = "disconnected"
               \/ ~Observe(es)
          ELSE \/ UNCHANGED <<textContent, fullText, typingFinished,
                              typingAborted>>
               \/ ~Observe(es)]_vars

\* an exit that followed an enter completed the typing in mid-line, the
\* hard cap timer still being armed
C8_Witness ==
    /\ terminalTextEl /\ typingAborted /\ pc = "char_sleep"
    /\ io = "disconnected" /\ deadline = "armed" /\ writes = <<>>
    /\ seen /\ lastEntry = "exit"

\* C9: an observer callback whose exit entries all come before the region
\* was ever seen changes neither the texts nor the flags, and leaves the
\* observer connected.
C9_ExitBeforeEnterIgnored ==
    [][\A es \in Batches :
          \/ UNCHANGED <<textContent, fullText, typingFinished, typingAborted,
                         io>>
          \/ ~(/\ ~seen /\ ~ExitAfterSeen(es, FALSE)
               /\ \E k \in 1..Len(es) : ~es[k]
               /\ Observe(es))]_vars

\* an exit was delivered to an animator in mid-typing that was never seen
C9_Witness ==
    /\ Typing /\ ~seen /\ io = "observing"
    /\ lastEntry = "exit" /\ Len(textContent) > 0

\* C10: finishTerminalInstant applied twice gives what it gives applied
\* once, in every reachable state.
C10_FinishIdempotent ==
    finishTerminalInstant(finishTerminalInstant(Cur)) =
        finishTerminalInstant(Cur)

\* a forced completion has acted in mid-typing on a non-empty join
C10_Witness ==
    /\ typingAborted /\ typingFinished /\ pc \in {"char_sleep", "line_pause"}
    /\ Len(Done) > 0 /\ textContent = Done

\* C11: a call of typeTerminal made while the animator is Typing or Finished
\* changes neither the displayed text nor fullText and schedules no further
\* typing callback.
C11_StartIdempotent ==
    (Typing \/ typingFinished) =>
        LET r == typeTerminal(Cur) IN
            /\ r.textContent = textContent
            /\ r.fullText = fullText
            /\ r.pc = "done"

\* C12 as stated: with an empty line sequence no step, of the start or after
\* it, changes the flags or the display surface, and nothing is handed to
\* the clipboard.
C12_EmptyLinesStayIdle ==
    [][(Len(lines') = 0 /\ pc' # "init") =>
          /\ UNCHANGED <<textContent, fullText, typingAborted, typingFinished>>
          /\ writes' = <<>>]_vars

\* C12 amended: with an empty line sequence the start changes neither the
\* flags nor the texts and schedules no typing callback; no later step puts
\* any text on the surface (a forced completion sets it to the empty text),
\* fullText stays empty and nothing is handed to the clipboard.
C12_EmptyLinesStartNoOp ==
    [][(Len(lines') = 0 /\ pc' # "init") =>
          /\ pc' = "done"
          /\ \/ ~Load
             \/ UNCHANGED <<textContent, fullText, typingAborted,
                            typingFinished>>
          /\ textContent' = textContent \/ textContent' = <<>>
          /\ fullText' = <<>>
          /\ writes' = <<>> /\ clipboard' = <<>>]_vars

\* the start has run on an empty line sequence and the surface still holds
\* what the page put there
C12_Witness ==
    /\ terminalTextEl /\ Len(lines) = 0 /\ pc = "done"
    /\ textContent = <<"a">> /\ ~typingFinished /\ deadline = "armed"

\* C13: without a display surface the flags and fullText keep their initial
\* values, no typing callback is ever pending and nothing is handed to the
\* clipboard.
C13_NoSurfaceInert ==
    ~terminalTextEl =>
        /\ ~typingFinished /\ ~typingAborted /\ fullText = <<>>
        /\ pc \in {"init", "done"}
        /\ writes = <<>> /\ clipboard = <<>>

\* without a surface the hard cap timer has fired and an exit that followed
\* an enter has been handed over, for a non-empty line sequence
C13_Witness ==
    /\ ~terminalTextEl /\ Len(lines) > 0 /\ pc = "done"
    /\ deadline = "fired" /\ seen /\ lastEntry = "exit"

\* C14: with a display surface and a non-empty line sequence the animator
\* is eventually Finished and stays Finished for ever.
C14_EventuallyFinished ==
    (terminalTextEl /\ Len(lines) > 0) => <>[]typingFinished

\* two lines were typed to the end where no hard cap timer was ever armed
C14_Witness ==
    /\ typingFinished /\ ~typingAborted /\ deadline = "unarmed"
    /\ Len(lines) = 2 /\ pc = "done"

\* C15: a click with a non-empty text to copy sets the label to "Copied" in
\* its own task where the clipboard API cannot be called, and otherwise
\* leaves a pending write that sets it when it settles, resolved or
\* rejected; the label turns to "Copied" for no other reason, and it is
\* "Copy" whenever no write and no revert timer is pending; every pending
\* write leads to the label "Copied", and every "Copied", however it came
\* about, is followed by "Copy".
C15_CopiedThenCopy ==
    /\ [][(WriteResolved \/ WriteRejected) => label' = "Copied"]_vars
    /\ [][CopyClick =>
            \/ Len(textToCopy(Cur))' = 0
            \/ IF hasClipboard THEN Len(writes') = Len(writes) + 1
               ELSE label' = "Copied" /\ revertTimers' = revertTimers + 1]_vars
    /\ [][(label = "Copy" /\ label' = "Copied") =>
            (Len(writes) > 0 \/ (~hasClipboard /\ CopyClick))]_vars
    /\ []((Len(writes) = 0 /\ revertTimers = 0) => label = "Copy")
    /\ (Len(writes) > 0 \/ label = "Copied") ~>
           (label = "Copied" /\ <>(label = "Copy"))

\* copies overlap: a click came while the label of an earlier copy was
\* still "Copied", so its write is pending beside that copy's revert timer
C15_Witness ==
    /\ hasClipboard /\ Len(writes) = 1 /\ revertTimers = 1
    /\ label = "Copied" /\ Len(clipboard) > 0

\* the element is missing, or its text does not parse, or parses to a value
\* that is no array
BadLinesEl ==
    \/ ~terminalLinesEl.present
    \/ terminalLinesEl.kind = "invalid"
    \/ terminalLinesEl.kind \in NonArrayKinds

\* C16: when #terminalLines is missing, or its text fails to parse, or the
\* parsed value is no array, the line sequence is empty, and the animator
\* is as with an empty line sequence: no typing callback is ever pending,
\* fullText stays empty, no text is shown but what the page held, and
\* nothing is handed to the clipboard.
C16_BadLinesAreEmpty ==
    BadLinesEl =>
        /\ lines = <<>>
        /\ pc \in {"init", "done"}
        /\ fullText = <<>>
        /\ (typingFinished => textContent = <<>>)
        /\ writes = <<>> /\ clipboard = <<>>

\* the text parsed to a value that is no array, and the hard cap timer
\* found nothing to show
C16_Witness ==
    /\ terminalLinesEl.present /\ terminalLinesEl.kind = "string"
    /\ terminalTextEl /\ pc = "done" /\ deadline = "fired"
    /\ typingFinished /\ textContent = <<>>

\* C17: once typing has started on a non-empty line sequence, fullText
\* equals the text of the display surface, and it equals the join whenever
\* the animator is Finished.
C17_FullTextMirrorsSurface ==
    (terminalTextEl /\ Len(lines) > 0 /\ pc # "init") =>
        /\ fullText = textContent
        /\ typingFinished => fullText = Done

\* C18: at most one timer of the typing loop is pending, and none before
\* the start or after a completion that was not forced.
C18_OnePendingTypingTimer ==
    /\ sleepTimers <= 1
    /\ pc = "init" => sleepTimers = 0
    /\ (typingFinished /\ ~typingAborted) => sleepTimers = 0

\* the loop sleeps between two lines, after earlier sleeps have fired
C18_Witness ==
    sleepTimers = 1 /\ pc = "line_pause" /\ ~typingFinished
        /\ Len(textContent) >= 2

\* C20: typingAborted implies typingFinished in every state, and the step
\* that sets typingAborted sets typingFinished and the displayed text to
\* the join; the typing loop never runs with the abort flag set and the
\* text incomplete.
C20_AbortedImpliesFinished ==
    /\ [](typingAborted => typingFinished)
    /\ [][(~typingAborted /\ typingAborted') =>
             (typingFinished' /\ textContent' = Done /\ fullText' = Done)]_vars

\* the hard cap timer aborted the typing between two lines
C20_Witness ==
    /\ typingAborted /\ typingFinished /\ pc = "line_pause"
    /\ deadline = "fired" /\ textContent = Done

\* a completion that was not forced: typingFinished without typingAborted
C20_NaturalReachable ==
    typingFinished /\ ~typingAborted

\* the targets of the intersecting entries of a batch
Intersecting(es) == {es[k].target : k \in {j \in 1..Len(es) : es[j].isIntersecting}}

\* C19: no step removes an "is-visible" mark; with reduced motion or without
\* IntersectionObserver every reveal element is marked once setupReveal has
\* run; otherwise the marked elements are those no longer observed, and an
\* observer callback marks the targets of its intersecting entries and no
\* other element.
C19_RevealMonotonic ==
    /\ [][isVisible \subseteq isVisible']_vars
    /\ [](~revealReady => isVisible = {})
    /\ []((revealReady /\ (reduce \/ ~hasIO)) =>
             (isVisible = revealEls /\ observed = {}))
    /\ []((revealReady /\ ~reduce /\ hasIO) =>
             (isVisible \subseteq revealEls /\ observed = revealEls \ isVisible))
    /\ [][\A es \in RevealBatches(observed) :
             \/ ~RevealObserve(es)
             \/ isVisible' = isVisible \cup Intersecting(es)]_vars

\* one element has been revealed by the observer, another is still watched
C19_Witness ==
    /\ revealReady /\ hasIO /\ ~reduce
    /\ isVisible # {} /\ observed # {}
====
